---- MODULE Spec2Model ----
(***************************************************************************)
(* State-machine model of the ParcelAgent React frontend:                  *)
(*   App.js            - App component (session, catalog, submission)      *)
(*   ParcelForm.js     - utterance entry and submit button                 *)
(*   ParcelResult.js   - result card / clarifying question                 *)
(*   authService.js    - token and user record, SharedPref storage         *)
(* Strings are sequences of tokens; a token is one character, except the   *)
(* fixed markers of the backend's message, which are one token each.       *)
(***************************************************************************)
EXTENDS Integers, Sequences, FiniteSets, TLC

\* ------------------------------------------------------------------ bounds
MaxSubmits == 3      \* caller-initiated submissions explored
MaxLoads == 2        \* catalog fetches that may be pending at once
MaxRecordings == 2   \* voice recordings started in one mount of the recorder
MaxHeard == 4        \* tokens of final text after which no result is explored

\* ------------------------------------------------------------ JS values
Null == "null"                 \* null for the token and the user record
None == <<>>                   \* null for result and error
Some(x) == <<x>>

\* ------------------------------------------------------------- utterances
SP == " "
UtterFull == <<"ABC", "Jaipur", "Kolkata", "50kg", "paint">>
UtterNoCompany == <<"Jaipur", "Kolkata", "50kg", "paint">>
UtterCompany == <<"ABC">>
FieldWords == {"ABC", "Jaipur", "Kolkata", "50kg", "paint"}

\* what the user can leave in the natural-language textarea
TypedTexts == {<<>>, <<SP>>, UtterFull, <<SP>> \o UtterNoCompany}
\* what the voice recorder can deliver
Transcripts == {UtterNoCompany}
\* what the user can leave in the clarifying-reply input
ClarifyTexts == {<<SP>>, <<SP>> \o UtterCompany \o <<SP>>}

RECURSIVE trimStart(_)
trimStart(s) == IF s # <<>> /\ Head(s) = SP THEN trimStart(Tail(s)) ELSE s

RECURSIVE trimEnd(_)
trimEnd(s) ==
  IF s # <<>> /\ s[Len(s)] = SP THEN trimEnd(SubSeq(s, 1, Len(s) - 1)) ELSE s

\* String.prototype.trim
trim(s) == trimEnd(trimStart(s))

\* --------------------------------------------- create-parcel response data
NL == "\n"
QuestionMark == "?"              \* the leading question-mark emoji
ParcelIdMarker == "Parcel ID: "
CostMarker == "Cost: "           \* "Cost: " followed by the rupee sign
Digits == {"1", "2", "7", "9"}

MsgCreated == <<ParcelIdMarker, "P", "7", NL, CostMarker, "1", "2">>
MsgNoCost == <<ParcelIdMarker, "P", "7">>
MsgQuestion == <<QuestionMark, "company">>
MsgRejected == <<"route not serviced">>

Data(s, m, p) == [success |-> s, message |-> m, parcel_info |-> p]
NoData == Data(FALSE, <<>>, FALSE)

CreateParcelData ==
  { Data(TRUE, MsgCreated, TRUE),
    Data(TRUE, MsgNoCost, TRUE),
    Data(TRUE, MsgQuestion, FALSE),
    Data(FALSE, MsgRejected, FALSE),
    Data(FALSE, MsgQuestion, FALSE) }

\* the two fixed error texts of App.handleSubmit
ErrFailed == <<"Failed to create parcel">>
ErrGeneric == <<"An error occurred while creating the parcel">>

\* an HTTP exchange as axios reports it: kind "ok" is a 2xx with a body,
\* "http" a non-2xx whose body may carry a detail, "network" no response
\* at all (connection error, timeout)
Resp(k, st, d, det) == [kind |-> k, status |-> st, data |-> d, detail |-> det]
Pending == Resp("pending", 0, NoData, <<>>)
Responses ==
  { Resp("ok", 200, d, <<>>) : d \in CreateParcelData }
    \cup { Resp("http", 422, NoData, MsgRejected),
           Resp("http", 500, NoData, <<>>),
           Resp("network", 0, NoData, <<>>) }

\* ------------------------------------------------------ reference catalog
NoList == <<>>
FallbackCities == <<"jaipur", "kolkata">>
FallbackMaterials == <<"paint", "chemicals">>
ApiCities == <<"delhi", "jaipur", "kolkata">>
ApiMaterials == <<"paint", "steel">>
\* citiesResponse.data.cities / materialsResponse.data.materials; None is
\* a body without the key
CitiesBodies == {None, Some(ApiCities)}
MaterialsBodies == {None, Some(ApiMaterials)}

\* ---------------------------------------------------------------- session
Tokens == {"tok"}
Users == {"user1"}

VARIABLES
  \* App
  isAuthenticated, currentUser, isLoading, result, error, cities, materials,
  \* authService and localStorage
  token, userData, lsAuthToken, lsUserData,
  \* ParcelForm / ParcelResult local state
  message, clarifyingInput, useQuickForm, quickFormData,
  \* calls in progress
  inflight,        \* create-parcel calls that have not returned
  loads,           \* loadData calls that have not returned
  \* history
  prevTurn,        \* utterance of the conversation's previous turn
  submits,         \* caller-initiated submissions so far
  posts,           \* axios.post('/api/create-parcel') calls so far
  lastLoad,        \* how the latest finished loadData ended
  catalogWrites,   \* assignments of the catalog since the session began
  loggedOut,       \* authService.logout ran and no login succeeded since
  \* VoiceRecorder state
  isRecording, transcript, finalTranscript, interimTranscript,
  recognition,     \* recognitionRef.current: what its handlers captured
                   \* when the effect created it, and the engine's status
  ending,          \* instances stopped by an effect cleanup, onend still due
  silenceTimer,    \* the pending silence timeout and what it captured
  \* VoiceRecorder history
  epoch,           \* recordings started since the recorder was mounted
  delivered,       \* what the latest onend passed to onTranscriptionComplete
  restartAttempted,\* the latest silence timeout called start()
  \* authService.makeAuthenticatedRequest
  returned,        \* what the latest call returned
  reloadPending    \* window.location.reload() was called

appVars == <<isAuthenticated, currentUser, isLoading, result, error, cities, materials>>
authVars == <<token, userData, lsAuthToken, lsUserData, loggedOut>>
reqVars == <<returned, reloadPending>>
formVars == <<message, clarifyingInput>>
quickVars == <<useQuickForm, quickFormData>>
recorderVars == <<isRecording, transcript, finalTranscript, interimTranscript>>
voiceVars == <<recorderVars, recognition, ending, silenceTimer, epoch, delivered,
               restartAttempted>>
callVars == <<inflight, loads>>
histVars == <<prevTurn, submits, posts, lastLoad, catalogWrites>>
vars == <<appVars, authVars, formVars, quickVars, voiceVars, callVars, histVars,
          reqVars>>

\* ------------------------------------------------------------ authService
\* SharedPref.token getter: localStorage value or ''
SharedPref_token == IF lsAuthToken = Null THEN "" ELSE lsAuthToken

\* SharedPref.getApiHeaders: the Authorization header value
getAuthHeaders == SharedPref_token

\* AuthService.isAuthenticated: !!this.token
authService_isAuthenticated == token # Null /\ token # ""

\* ---------------------------------------------------------- ParcelResult
\* message.startsWith(question mark)
isClarifyingQuestion(m) == m # <<>> /\ m[1] = QuestionMark

\* positions where a marker is directly followed by a token of the class
MatchStarts(m, marker, class) ==
  { p \in 1..(Len(m) - 1) : m[p] = marker /\ m[p + 1] \in class }

RECURSIVE RunEnd(_, _, _)
\* last position of the maximal run of class tokens starting at p
RunEnd(m, p, class) ==
  IF p < Len(m) /\ m[p + 1] \in class THEN RunEnd(m, p + 1, class) ELSE p

\* String.prototype.match(/marker(class+)/): capture group 1 of the leftmost
\* match, None when there is no match
Capture(m, marker, class) ==
  LET starts == MatchStarts(m, marker, class)
  IN  IF starts = {} THEN None
      ELSE LET p == CHOOSE q \in starts : \A r \in starts : q <= r
           IN  Some(SubSeq(m, p + 1, RunEnd(m, p + 1, class)))

TokensOf(m) == {m[i] : i \in 1..Len(m)}
NotNewline(m) == TokensOf(m) \ {NL}

parcelIdMatch(m) == Capture(m, ParcelIdMarker, NotNewline(m))
costMatch(m) == Capture(m, CostMarker, Digits \cup {","})

DefaultParcelId == <<"N/A">>
DefaultCost == <<"2", "9", "9", "9", "7">>

\* const parcelId = parcelIdMatch ? parcelIdMatch[1] : 'N/A'
parcelId(m) == IF parcelIdMatch(m) = None THEN DefaultParcelId ELSE parcelIdMatch(m)[1]
\* const cost = costMatch ? costMatch[1] : '29997'
cost(m) == IF costMatch(m) = None THEN DefaultCost ELSE costMatch(m)[1]

\* ------------------------------------------------------------- rendering
\* App renders the main page (not LoginPage)
MainPageShown == isAuthenticated
\* {error && ...}: the error panel with its Try Again button
ErrorPanelShown == MainPageShown /\ error # None /\ error[1] # <<>>
\* {result && <ParcelResult .../>}
ParcelResultShown == MainPageShown /\ result # None
\* the clarifying-question card of ParcelResult
QuestionShown == ParcelResultShown /\ isClarifyingQuestion(result[1].message)
\* the summary cards with parcel ID and cost
SummaryShown ==
  /\ ParcelResultShown
  /\ ~isClarifyingQuestion(result[1].message)
  /\ result[1].success /\ result[1].parcel_info

\* the quick form: field names in the order of the useState initialiser
QuickFields == <<"company", "fromCity", "toCity", "weight", "material">>
EmptyQuickForm == [f \in {QuickFields[i] : i \in 1..Len(QuickFields)} |-> <<>>]

\* the <option> values of a select: '' and one per catalog entry
Options(list) == {<<>>} \cup {<<list[i]>> : i \in 1..Len(list)}

\* what the user can put into a quick-form field
QuickValues(f) ==
  CASE f = "company" -> {<<>>, <<SP>>, UtterCompany}
    [] f = "fromCity" -> Options(cities)
    [] f = "toCity" -> Options(cities)
    [] f = "weight" -> {<<>>, <<"5", "0">>}
    [] f = "material" -> Options(materials)

\* the template literal of ParcelForm.handleSubmit
generatedMessage(d) ==
  <<"Create a parcel for ">> \o d.company \o <<" from ">> \o d.fromCity
    \o <<" to ">> \o d.toCity \o <<", ">> \o d.weight \o <<"kg ">> \o d.material

\* mutation: the quick form counts a whitespace-only field as filled
isFormValid_noTrim ==
  IF useQuickForm
  THEN \A f \in DOMAIN quickFormData : quickFormData[f] # <<>>
  ELSE trim(message) # <<>>

\* ParcelForm.isFormValid
isFormValid ==
  IF useQuickForm
  THEN \A f \in DOMAIN quickFormData : trim(quickFormData[f]) # <<>>
  ELSE trim(message) # <<>>
\* mutation: the submit button ignores isLoading
SubmitDisabled_ignoresLoading == ~isFormValid

\* the submit button's disabled attribute
SubmitDisabled == ~isFormValid \/ isLoading

\* ---------------------------------------------------------------- Init
\* state after App's first commit: checkAuth has read authService, and the
\* catalog effect has started loadData when a stored token was found
Init ==
  /\ \E stored \in BOOLEAN :
       /\ lsAuthToken = IF stored THEN "tok" ELSE Null
       /\ lsUserData = IF stored THEN "user1" ELSE Null
       /\ token = SharedPref_token
       /\ userData = lsUserData
       /\ isAuthenticated = authService_isAuthenticated
       /\ currentUser = userData
       /\ loads = IF stored THEN 1 ELSE 0
  /\ isLoading = FALSE
  /\ result = None
  /\ error = None
  /\ cities = NoList
  /\ materials = NoList
  /\ message = <<>>
  /\ clarifyingInput = <<>>
  /\ useQuickForm = FALSE
  /\ quickFormData = EmptyQuickForm
  /\ inflight = <<>>
  /\ prevTurn = <<>>
  /\ submits = 0
  /\ posts = 0
  /\ lastLoad = "none"
  /\ catalogWrites = 0
  /\ loggedOut = FALSE
  /\ returned = "none"
  /\ reloadPending = FALSE
  /\ isRecording = FALSE
  /\ transcript = <<>>
  /\ finalTranscript = <<>>
  /\ interimTranscript = <<>>
  /\ recognition = [final |-> <<>>, interim |-> <<>>, recording |-> FALSE,
                    status |-> "idle"]
  /\ ending = <<>>
  /\ silenceTimer = None
  /\ epoch = 0
  /\ delivered = None
  /\ restartAttempted = FALSE

\* ------------------------------------------------------------ sequences
RemoveAt(q, i) == SubSeq(q, 1, i - 1) \o SubSeq(q, i + 1, Len(q))

\* history: the calls in progress were issued before the caller abandoned
Abandon(q) == [i \in 1..Len(q) |-> [q[i] EXCEPT !.abandoned = TRUE]]

\* ---------------------------------------------------------- VoiceRecorder
\* the handlers of a SpeechRecognition instance close over the values that
\* finalTranscript, interimTranscript and isRecording had in the render
\* whose effect created the instance
Instance(fin, intr, rec, st) ==
  [final |-> fin, interim |-> intr, recording |-> rec, status |-> st]

\* <VoiceRecorder/> is rendered in natural-language mode only
VoiceMounted == MainPageShown /\ ~useQuickForm

\* a freshly mounted recorder, after its effect has run
VoiceMount ==
  /\ isRecording' = FALSE
  /\ transcript' = <<>>
  /\ finalTranscript' = <<>>
  /\ interimTranscript' = <<>>
  /\ recognition' = Instance(<<>>, <<>>, FALSE, "idle")
  /\ ending' = <<>>
  /\ silenceTimer' = None
  /\ epoch' = 0
  /\ delivered' = None
  /\ restartAttempted' = FALSE

\* the effect runs again because ParcelForm re-rendered and passed a new
\* onTranscriptionComplete: the cleanup stops the old instance and clears the
\* timeout, then a new instance is created whose handlers capture the state
\* of this render (fin, intr, rec)
EffectRerun(fin, intr, rec, rest) ==
  /\ ending' = IF recognition.status = "idle" THEN rest
               ELSE Append(rest, [recognition EXCEPT !.status = "stopping"])
  /\ recognition' = Instance(fin, intr, rec, "idle")
  /\ silenceTimer' = None

\* ParcelForm re-renders while the recorder's own state stays as it is
VoiceRerender ==
  IF VoiceMounted
  THEN /\ EffectRerun(finalTranscript, interimTranscript, isRecording, ending)
       /\ UNCHANGED <<recorderVars, epoch, delivered, restartAttempted>>
  ELSE UNCHANGED voiceVars

\* ------------------------------------------------------------ App.handleSubmit
\* mutation: handleSubmit does not clear the previous result
handleSubmit_keepsResult(msg, clarify) ==
  /\ isLoading' = TRUE
  /\ error' = None
  /\ result' = result
  /\ inflight' = Append(inflight,
       [message |-> msg, clarify |-> clarify, prev |-> prevTurn,
        before |-> result, abandoned |-> FALSE, response |-> Pending])
  /\ posts' = posts + 1
  /\ prevTurn' = msg
  /\ clarifyingInput' = <<>>
  /\ UNCHANGED <<isAuthenticated, currentUser, cities, materials, authVars,
                 message, loads, lastLoad, catalogWrites>>
  /\ UNCHANGED reqVars
  /\ UNCHANGED quickVars
  /\ VoiceRerender

\* the part of handleSubmit before the await: three state updates and the
\* POST of {message: msg}
handleSubmit(msg, clarify) ==
  /\ isLoading' = TRUE
  /\ error' = None
  /\ result' = None
  /\ inflight' = Append(inflight,
       [message |-> msg, clarify |-> clarify, prev |-> prevTurn,
        before |-> result, abandoned |-> FALSE, response |-> Pending])
  /\ posts' = posts + 1
  /\ prevTurn' = msg
  /\ clarifyingInput' = <<>>        \* ParcelResult unmounts with result
  /\ UNCHANGED <<isAuthenticated, currentUser, cities, materials, authVars,
                 message, loads, lastLoad, catalogWrites>>
  /\ UNCHANGED reqVars
  /\ UNCHANGED quickVars
  /\ VoiceRerender

\* err.response?.data?.detail || 'An error occurred while creating the parcel'
CatchError(r) ==
  IF r.kind = "http" /\ r.detail # <<>> THEN r.detail ELSE ErrGeneric

\* the server (or the network) answers call i
createParcelResponds(i, r) ==
  /\ i \in 1..Len(inflight)
  /\ inflight[i].response = Pending
  /\ inflight' = [inflight EXCEPT ![i].response = r]
  /\ UNCHANGED <<appVars, authVars, formVars, loads, histVars>>
  /\ UNCHANGED reqVars
  /\ UNCHANGED quickVars
  /\ UNCHANGED voiceVars

\* mutation: a failed call is sent again by the catch block
handleSubmitResume_retry(i) ==
  /\ i \in 1..Len(inflight)
  /\ inflight[i].response # Pending
  /\ LET r == inflight[i].response
     IN  IF r.kind = "ok"
         THEN /\ IF r.data.success
                 THEN result' = Some(r.data) /\ error' = error
                 ELSE error' = Some(ErrFailed) /\ result' = result
              /\ inflight' = RemoveAt(inflight, i)
              /\ posts' = posts
         ELSE /\ error' = Some(CatchError(r)) /\ result' = result
              /\ inflight' = [inflight EXCEPT ![i].response = Pending]
              /\ posts' = posts + 1
  /\ isLoading' = FALSE
  /\ UNCHANGED <<isAuthenticated, currentUser, cities, materials, authVars,
                 formVars, loads, prevTurn, submits, lastLoad, catalogWrites>>
  /\ UNCHANGED reqVars
  /\ UNCHANGED quickVars
  /\ VoiceRerender

\* the part of handleSubmit after the await, for call i: try, catch, finally
handleSubmitResume(i) ==
  /\ i \in 1..Len(inflight)
  /\ inflight[i].response # Pending
  /\ LET r == inflight[i].response
     IN  IF r.kind = "ok"
         THEN IF r.data.success
              THEN result' = Some(r.data) /\ error' = error
              ELSE error' = Some(ErrFailed) /\ result' = result
         ELSE error' = Some(CatchError(r)) /\ result' = result
  /\ isLoading' = FALSE
  /\ inflight' = RemoveAt(inflight, i)
  /\ UNCHANGED <<isAuthenticated, currentUser, cities, materials, authVars,
                 formVars, loads, histVars>>
  /\ UNCHANGED reqVars
  /\ UNCHANGED quickVars
  /\ VoiceRerender

\* ------------------------------------------------------------- ParcelForm
\* textarea onChange
setMessage(t) ==
  /\ MainPageShown
  /\ t \in TypedTexts
  /\ message' = t
  /\ UNCHANGED <<appVars, authVars, clarifyingInput, callVars, histVars>>
  /\ UNCHANGED reqVars
  /\ UNCHANGED quickVars
  /\ IF t # message THEN VoiceRerender ELSE UNCHANGED voiceVars

\* VoiceRecorder hands a finished transcript to the form
handleVoiceTranscription(t) ==
  /\ MainPageShown
  /\ t \in Transcripts
  /\ message' = t
  /\ UNCHANGED <<appVars, authVars, clarifyingInput, callVars, histVars>>
  /\ UNCHANGED reqVars
  /\ UNCHANGED quickVars
  /\ IF t # message THEN VoiceRerender ELSE UNCHANGED voiceVars

\* the Quick Form switch
setUseQuickForm ==
  /\ MainPageShown
  /\ useQuickForm' = ~useQuickForm
  /\ UNCHANGED <<appVars, authVars, formVars, quickFormData, callVars,
                 histVars, reqVars>>
  /\ VoiceMount

\* onChange of a quick-form input or select
handleQuickFormChange(f, v) ==
  /\ MainPageShown /\ useQuickForm
  /\ f \in DOMAIN quickFormData
  /\ v \in QuickValues(f)
  /\ quickFormData' = [quickFormData EXCEPT ![f] = v]
  /\ UNCHANGED <<appVars, authVars, formVars, useQuickForm, callVars,
                 histVars, reqVars>>
  /\ UNCHANGED voiceVars

\* form submit through the Create Parcel button
ParcelForm_handleSubmit ==
  /\ MainPageShown
  /\ ~SubmitDisabled
  /\ submits < MaxSubmits
  /\ IF useQuickForm
     THEN /\ submits' = submits + 1
          /\ handleSubmit(generatedMessage(quickFormData), FALSE)
     ELSE /\ trim(message) # <<>>
          /\ submits' = submits + 1
          /\ handleSubmit(trim(message), FALSE)

\* ----------------------------------------------------------- ParcelResult
\* reply input onChange
setClarifyingInput(t) ==
  /\ QuestionShown
  /\ t \in ClarifyTexts
  /\ clarifyingInput' = t
  /\ UNCHANGED <<appVars, authVars, message, callVars, histVars>>
  /\ UNCHANGED reqVars
  /\ UNCHANGED quickVars
  /\ UNCHANGED voiceVars

\* mutation: the reply is sent without the blank check
handleClarifyingSubmit_noCheck ==
  /\ QuestionShown
  /\ submits < MaxSubmits
  /\ submits' = submits + 1
  /\ handleSubmit(trim(clarifyingInput), TRUE)

\* Submit button or Enter key of the clarifying card; onClarifyingResponse
\* is App.handleClarifyingResponse
handleClarifyingSubmit ==
  /\ QuestionShown
  /\ submits < MaxSubmits
  /\ trim(clarifyingInput) # <<>>
  /\ submits' = submits + 1
  /\ handleSubmit(trim(clarifyingInput), TRUE)

\* ------------------------------------------------------------------- App
\* Try Again, Start Over, Create Another Parcel, and the close button
resetForm ==
  /\ ErrorPanelShown \/ ParcelResultShown
  /\ result' = None
  /\ error' = None
  /\ clarifyingInput' = <<>>
  /\ inflight' = Abandon(inflight)
  /\ prevTurn' = <<>>
  /\ UNCHANGED <<isAuthenticated, currentUser, isLoading, cities, materials,
                 authVars, message, loads, submits, posts, lastLoad,
                 catalogWrites>>
  /\ UNCHANGED reqVars
  /\ UNCHANGED quickVars
  /\ VoiceRerender

\* mutation: logout leaves the stored user record behind
authService_logout_keepsUserData ==
  /\ token' = Null
  /\ userData' = Null
  /\ lsAuthToken' = Null
  /\ lsUserData' = lsUserData
  /\ loggedOut' = TRUE

\* AuthService.logout: this.token, this.userData, then SharedPref.clear()
authService_logout ==
  /\ token' = Null
  /\ userData' = Null
  /\ lsAuthToken' = Null
  /\ lsUserData' = Null
  /\ loggedOut' = TRUE

handleLogout ==
  /\ MainPageShown
  /\ authService_logout
  /\ isAuthenticated' = FALSE
  /\ currentUser' = Null
  /\ result' = None
  /\ error' = None
  /\ message' = <<>>                \* ParcelForm unmounts
  /\ clarifyingInput' = <<>>        \* ParcelResult unmounts
  /\ inflight' = Abandon(inflight)
  /\ prevTurn' = <<>>
  /\ catalogWrites' = 0
  /\ UNCHANGED <<isLoading, cities, materials, loads, submits, posts, lastLoad>>
  /\ UNCHANGED reqVars
  /\ useQuickForm' = FALSE /\ quickFormData' = EmptyQuickForm
  /\ VoiceMount

\* AuthService.login when the server answers ok with a token
authService_login(tok, user) ==
  /\ token' = tok
  /\ userData' = user
  /\ lsAuthToken' = tok
  /\ lsUserData' = user
  /\ loggedOut' = FALSE

\* LoginPage: a successful authService.login, then onLogin = handleLogin;
\* the [isAuthenticated] effect then starts loadData
handleLogin(tok, user) ==
  /\ ~MainPageShown
  /\ loads < MaxLoads
  /\ authService_login(tok, user)
  /\ isAuthenticated' = TRUE
  /\ currentUser' = user
  /\ loads' = loads + 1
  /\ catalogWrites' = 0
  /\ UNCHANGED <<isLoading, result, error, cities, materials, formVars,
                 inflight, prevTurn, submits, posts, lastLoad>>
  /\ UNCHANGED reqVars
  /\ UNCHANGED quickVars
  /\ VoiceMount

\* history: one more assignment of the catalog in the running session
CountWrite == IF isAuthenticated THEN catalogWrites + 1 ELSE catalogWrites

\* loadData: both GETs fulfilled
loadDataResolve(cb, mb) ==
  /\ loads > 0
  /\ cities' = IF cb = None THEN NoList ELSE cb[1]
  /\ materials' = IF mb = None THEN NoList ELSE mb[1]
  /\ loads' = loads - 1
  /\ lastLoad' = "ok"
  /\ catalogWrites' = CountWrite
  /\ UNCHANGED <<isAuthenticated, currentUser, isLoading, result, error,
                 authVars, formVars, inflight, prevTurn, submits, posts>>
  /\ UNCHANGED reqVars
  /\ UNCHANGED quickVars
  /\ VoiceRerender

\* mutation: the catch block restores the cities only
loadDataReject_citiesOnly ==
  /\ loads > 0
  /\ cities' = FallbackCities
  /\ materials' = materials
  /\ loads' = loads - 1
  /\ lastLoad' = "failed"
  /\ catalogWrites' = CountWrite
  /\ UNCHANGED <<isAuthenticated, currentUser, isLoading, result, error,
                 authVars, formVars, inflight, prevTurn, submits, posts>>
  /\ UNCHANGED reqVars
  /\ UNCHANGED quickVars
  /\ VoiceRerender

\* loadData: Promise.all rejected because either GET failed
loadDataReject ==
  /\ loads > 0
  /\ cities' = FallbackCities
  /\ materials' = FallbackMaterials
  /\ loads' = loads - 1
  /\ lastLoad' = "failed"
  /\ catalogWrites' = CountWrite
  /\ UNCHANGED <<isAuthenticated, currentUser, isLoading, result, error,
                 authVars, formVars, inflight, prevTurn, submits, posts>>
  /\ UNCHANGED reqVars
  /\ UNCHANGED quickVars
  /\ VoiceRerender

\* --------------------------------------- authService.makeAuthenticatedRequest
\* what fetch gives: an HTTP status, or 0 when fetch itself rejects
FetchOutcomes == {0, 200, 401, 500}

\* mutation: every error status logs the user out
makeAuthenticatedRequest_anyError(st) ==
  /\ ~reloadPending
  /\ st \in FetchOutcomes
  /\ IF st >= 400
     THEN /\ authService_logout
          /\ reloadPending' = TRUE
          /\ returned' = "null"
     ELSE /\ returned' = IF st = 0 THEN "throw" ELSE "response"
          /\ UNCHANGED <<authVars, reloadPending>>
  /\ UNCHANGED <<appVars, formVars, callVars, histVars>>
  /\ UNCHANGED quickVars
  /\ UNCHANGED voiceVars

\* one call of makeAuthenticatedRequest whose fetch ends with st
makeAuthenticatedRequest(st) ==
  /\ ~reloadPending
  /\ st \in FetchOutcomes
  /\ IF st = 401
     THEN /\ authService_logout
          /\ reloadPending' = TRUE
          /\ returned' = "null"
     ELSE /\ returned' = IF st = 0 THEN "throw" ELSE "response"
          /\ UNCHANGED <<authVars, reloadPending>>
  /\ UNCHANGED <<appVars, formVars, callVars, histVars>>
  /\ UNCHANGED quickVars
  /\ UNCHANGED voiceVars

\* the reload asked for by makeAuthenticatedRequest: the page starts again
\* from what localStorage holds, and pending calls are dropped
windowReload ==
  /\ reloadPending
  /\ token' = SharedPref_token
  /\ userData' = lsUserData
  /\ isAuthenticated' = (lsAuthToken # Null)
  /\ currentUser' = lsUserData
  /\ loads' = IF lsAuthToken # Null THEN 1 ELSE 0
  /\ isLoading' = FALSE
  /\ result' = None
  /\ error' = None
  /\ cities' = NoList
  /\ materials' = NoList
  /\ message' = <<>>
  /\ clarifyingInput' = <<>>
  /\ inflight' = <<>>
  /\ prevTurn' = <<>>
  /\ lastLoad' = "none"
  /\ catalogWrites' = 0
  /\ returned' = "none"
  /\ reloadPending' = FALSE
  /\ UNCHANGED <<lsAuthToken, lsUserData, loggedOut, submits, posts>>
  /\ useQuickForm' = FALSE /\ quickFormData' = EmptyQuickForm
  /\ VoiceMount

\* ---------------------------------------------- VoiceRecorder: the handlers
\* what the user says in the n-th recording
SpeechWords == <<"alpha", "bravo", "charlie", "delta">>

\* one SpeechRecognitionResult: results[i][0].transcript and results[i].isFinal
Segment(text, isFinal) == [text |-> text, isFinal |-> isFinal]

\* the result events the engine can raise for a word
SpeechEvents(w) ==
  { << Segment(<<w>>, TRUE) >>,
    << Segment(<<w>>, FALSE) >>,
    << Segment(<<w>>, TRUE), Segment(<<w>>, FALSE) >> }

\* the loop of onresult: final segments are joined with a trailing space
RECURSIVE newFinalTranscript(_)
newFinalTranscript(ev) ==
  IF ev = <<>> THEN <<>>
  ELSE (IF Head(ev).isFinal THEN Head(ev).text \o <<SP>> ELSE <<>>)
         \o newFinalTranscript(Tail(ev))

RECURSIVE newInterimTranscript(_)
newInterimTranscript(ev) ==
  IF ev = <<>> THEN <<>>
  ELSE (IF Head(ev).isFinal THEN <<>> ELSE Head(ev).text)
         \o newInterimTranscript(Tail(ev))

\* recognition.start(): throws, and is caught, unless the instance is idle
start(r) == IF r.status = "idle" THEN [r EXCEPT !.status = "starting"] ELSE r

\* recognition.stop(): the engine will raise onend
stop(r) == IF r.status = "idle" THEN r ELSE [r EXCEPT !.status = "stopping"]

\* the microphone button while it shows "start"
startRecording ==
  /\ VoiceMounted /\ ~isLoading
  /\ ~isRecording
  /\ epoch < MaxRecordings
  /\ transcript' = <<>>
  /\ finalTranscript' = <<>>
  /\ interimTranscript' = <<>>
  /\ silenceTimer' = None
  /\ recognition' = start(recognition)
  /\ epoch' = epoch + 1
  /\ delivered' = None
  /\ UNCHANGED <<isRecording, ending, restartAttempted>>
  /\ UNCHANGED <<appVars, authVars, formVars, quickVars, callVars, histVars,
                 reqVars>>

\* the microphone button while it shows "stop"
stopRecording ==
  /\ VoiceMounted /\ ~isLoading
  /\ isRecording
  /\ recognition' = stop(recognition)
  /\ silenceTimer' = None
  /\ UNCHANGED <<recorderVars, ending, epoch, delivered, restartAttempted>>
  /\ UNCHANGED <<appVars, authVars, formVars, quickVars, callVars, histVars,
                 reqVars>>

recognition_onstart ==
  /\ VoiceMounted
  /\ recognition.status = "starting"
  /\ recognition' = [recognition EXCEPT !.status = "running"]
  /\ isRecording' = TRUE
  /\ UNCHANGED <<transcript, finalTranscript, interimTranscript, ending,
                 silenceTimer, epoch, delivered, restartAttempted>>
  /\ UNCHANGED <<appVars, authVars, formVars, quickVars, callVars, histVars,
                 reqVars>>

\* the functional updates see the current state; combined and the timeout
\* callback see what the handler captured
recognition_onresult(ev) ==
  /\ VoiceMounted
  /\ recognition.status = "running"
  /\ epoch >= 1
  /\ Len(finalTranscript) < MaxHeard
  /\ ev \in SpeechEvents(SpeechWords[epoch])
  /\ finalTranscript' = finalTranscript \o newFinalTranscript(ev)
  /\ interimTranscript' = newInterimTranscript(ev)
  /\ transcript' = trim(recognition.final \o newFinalTranscript(ev)
                          \o newInterimTranscript(ev))
  /\ silenceTimer' = Some(recognition.recording)
  /\ UNCHANGED <<isRecording, recognition, ending, epoch, delivered,
                 restartAttempted>>
  /\ UNCHANGED <<appVars, authVars, formVars, quickVars, callVars, histVars,
                 reqVars>>

\* the engine raises end after error
recognition_onerror ==
  /\ VoiceMounted
  /\ recognition.status \in {"starting", "running"}
  /\ isRecording' = FALSE
  /\ recognition' = [recognition EXCEPT !.status = "stopping"]
  /\ UNCHANGED <<transcript, finalTranscript, interimTranscript, ending,
                 silenceTimer, epoch, delivered, restartAttempted>>
  /\ UNCHANGED <<appVars, authVars, formVars, quickVars, callVars, histVars,
                 reqVars>>

\* onend of an instance r whose engine has stopped; after is the instance in
\* recognitionRef.current once r has ended and rest the instances still ending
onend(r, after, rest) ==
  LET completeTranscript == trim(r.final \o r.interim) IN
  /\ isRecording' = FALSE
  /\ UNCHANGED <<finalTranscript, interimTranscript, epoch, restartAttempted>>
  /\ IF completeTranscript # <<>>
     THEN /\ delivered' = Some(completeTranscript)
          /\ message' = completeTranscript
          /\ transcript' = completeTranscript
          /\ IF completeTranscript # message
             THEN /\ ending' = IF after.status = "idle" THEN rest
                               ELSE Append(rest, stop(after))
                  /\ recognition' = Instance(finalTranscript, interimTranscript,
                                             FALSE, "idle")
             ELSE /\ recognition' = after
                  /\ ending' = rest
     ELSE /\ delivered' = None
          /\ recognition' = after
          /\ ending' = rest
          /\ UNCHANGED <<message, transcript>>
  /\ silenceTimer' = None
  /\ UNCHANGED <<appVars, authVars, clarifyingInput, quickVars, callVars,
                 histVars, reqVars>>

\* the engine of the current instance ends, by stop() or by itself
recognition_onend ==
  /\ VoiceMounted
  /\ recognition.status \in {"running", "stopping"}
  /\ onend(recognition, [recognition EXCEPT !.status = "idle"], ending)

\* an instance that an effect cleanup stopped ends
detached_onend(j) ==
  /\ VoiceMounted
  /\ j \in 1..Len(ending)
  /\ onend(ending[j], recognition, RemoveAt(ending, j))

\* the silence timeout set by the latest onresult runs
silenceTimeout ==
  /\ VoiceMounted
  /\ silenceTimer # None
  /\ silenceTimer' = None
  /\ IF silenceTimer[1]
     THEN /\ recognition' = start(recognition)
          /\ restartAttempted' = TRUE
     ELSE /\ restartAttempted' = FALSE
          /\ UNCHANGED recognition
  /\ UNCHANGED <<recorderVars, ending, epoch, delivered>>
  /\ UNCHANGED <<appVars, authVars, formVars, quickVars, callVars, histVars,
                 reqVars>>

\* the "Send to Chat" button
sendToChat ==
  /\ VoiceMounted
  /\ ~isRecording /\ transcript # <<>>
  /\ message' = transcript
  /\ IF transcript # message THEN VoiceRerender ELSE UNCHANGED voiceVars
  /\ UNCHANGED <<appVars, authVars, clarifyingInput, quickVars, callVars,
                 histVars, reqVars>>

\* ------------------------------------------------------------------ Next
Next ==
  \/ \E t \in TypedTexts : setMessage(t)
  \/ \E t \in Transcripts : handleVoiceTranscription(t)
  \/ ParcelForm_handleSubmit
  \/ \E t \in ClarifyTexts : setClarifyingInput(t)
  \/ handleClarifyingSubmit
  \/ \E i \in 1..Len(inflight) : \E r \in Responses : createParcelResponds(i, r)
  \/ \E i \in 1..Len(inflight) : handleSubmitResume(i)
  \/ resetForm
  \/ handleLogout
  \/ \E tok \in Tokens : \E user \in Users : handleLogin(tok, user)
  \/ \E cb \in CitiesBodies : \E mb \in MaterialsBodies : loadDataResolve(cb, mb)
  \/ loadDataReject
  \/ \E st \in FetchOutcomes : makeAuthenticatedRequest(st)
  \/ windowReload

Spec == Init /\ [][Next]_vars

\* ---------------------------------------------------------------- FormSpec
\* the form in one signed-in session whose catalog lookup has failed
FormInit ==
  /\ lsAuthToken = "tok" /\ lsUserData = "user1"
  /\ token = SharedPref_token
  /\ userData = lsUserData
  /\ isAuthenticated = authService_isAuthenticated
  /\ currentUser = userData
  /\ loads = 0
  /\ isLoading = FALSE
  /\ result = None
  /\ error = None
  /\ cities = FallbackCities
  /\ materials = FallbackMaterials
  /\ message = <<>>
  /\ clarifyingInput = <<>>
  /\ useQuickForm = FALSE
  /\ quickFormData = EmptyQuickForm
  /\ inflight = <<>>
  /\ prevTurn = <<>>
  /\ submits = 0
  /\ posts = 0
  /\ lastLoad = "failed"
  /\ catalogWrites = 1
  /\ loggedOut = FALSE
  /\ returned = "none"
  /\ reloadPending = FALSE
  /\ isRecording = FALSE
  /\ transcript = <<>>
  /\ finalTranscript = <<>>
  /\ interimTranscript = <<>>
  /\ recognition = [final |-> <<>>, interim |-> <<>>, recording |-> FALSE,
                    status |-> "idle"]
  /\ ending = <<>>
  /\ silenceTimer = None
  /\ epoch = 0
  /\ delivered = None
  /\ restartAttempted = FALSE

\* the answers explored for submissions made from the form
FormResponses ==
  { Resp("ok", 200, Data(TRUE, MsgCreated, TRUE), <<>>),
    Resp("ok", 200, Data(TRUE, MsgQuestion, FALSE), <<>>),
    Resp("network", 0, NoData, <<>>) }

\* the texts and the field values the user enters in this session
FormTexts == {<<SP>>, UtterFull}
QuickInputs(f) ==
  CASE f = "company" -> {<<SP>>, UtterCompany}
    [] f = "fromCity" -> {<<"jaipur">>}
    [] f = "toCity" -> {<<"kolkata">>}
    [] f = "weight" -> {<<"5", "0">>}
    [] f = "material" -> {<<"paint">>}

FormNext ==
  \/ \E t \in FormTexts : setMessage(t)
  \/ setUseQuickForm
  \/ \E f \in DOMAIN quickFormData : \E v \in QuickInputs(f) : handleQuickFormChange(f, v)
  \/ ParcelForm_handleSubmit
  \/ \E t \in ClarifyTexts : setClarifyingInput(t)
  \/ handleClarifyingSubmit
  \/ \E i \in 1..Len(inflight) : \E r \in FormResponses : createParcelResponds(i, r)
  \/ \E i \in 1..Len(inflight) : handleSubmitResume(i)
  \/ resetForm

FormSpec == FormInit /\ [][FormNext]_vars

\* one mount of the recorder in a signed-in session
VoiceInit == FormInit

VoiceNext ==
  \/ startRecording
  \/ stopRecording
  \/ recognition_onstart
  \/ \E n \in 1..Len(SpeechWords) : \E ev \in SpeechEvents(SpeechWords[n]) :
        recognition_onresult(ev)
  \/ recognition_onerror
  \/ recognition_onend
  \/ \E j \in 1..Len(ending) : detached_onend(j)
  \/ silenceTimeout
  \/ sendToChat
  \/ \E t \in FormTexts : setMessage(t)

VoiceSpec == VoiceInit /\ [][VoiceNext]_vars

\* the JavaScript event loop runs the continuation of a settled promise
FairSpec == Spec /\ WF_vars(\E i \in 1..Len(inflight) : handleSubmitResume(i))

\* ================================================================ claims

\* C1: at most one create-parcel call is in flight at any time, whatever the
\* sequence of submits, replies, transcriptions, resets, logouts and logins.
C1_AtMostOneInFlight == Len(inflight) <= 1

\* a second submission is in flight, the first one having returned, while
\* the form holds a valid utterance
C1_Witness ==
  /\ Len(inflight) = 1 /\ submits >= 2
  /\ MainPageShown /\ isFormValid /\ isLoading

\* the field words an utterance states
Fields(u) == TokensOf(u) \cap FieldWords

\* C2: a clarifying reply is appended to the previous context: the request
\* it causes still carries every field stated in the previous turn.
C2_ClarifyCarriesContext ==
  \A i \in 1..Len(inflight) :
    inflight[i].clarify => Fields(inflight[i].prev) \subseteq Fields(inflight[i].message)

\* the text the backend put after a marker, up to the end of the line
ReturnedValue(m, marker) == Capture(m, marker, NotNewline(m))

\* C3: on the summary card of a successful submission the parcel ID and the
\* cost shown are exactly the values in the response; none is shown that the
\* response does not contain ('N/A' stands for no ID).
C3_ShownIsReturned ==
  SummaryShown =>
    LET m == result[1].message
    IN  /\ \/ parcelId(m) = DefaultParcelId
           \/ Some(parcelId(m)) = ReturnedValue(m, ParcelIdMarker)
        /\ Some(cost(m)) = ReturnedValue(m, CostMarker)

\* the collaborator rejected the data: success=false, or a 4xx with a detail
IsRejection(r) ==
  \/ r.kind = "ok" /\ ~r.data.success
  \/ r.kind = "http" /\ r.status < 500 /\ r.detail # <<>>
RejectionReason(r) == IF r.kind = "ok" THEN r.data.message ELSE r.detail

\* C4: when a call returns a rejection, the error then held is exactly the
\* reason the collaborator returned.
C4_RejectionReasonSurfaced ==
  [][\A i \in 1..Len(inflight) :
       (handleSubmitResume(i) /\ IsRejection(inflight[i].response))
         => error' = Some(RejectionReason(inflight[i].response))]_vars

\* network error, timeout or 5xx
IsTransportFailure(r) == r.kind = "network" \/ (r.kind = "http" /\ r.status >= 500)

\* C5: when the call of a clarifying reply returns a transport failure, the
\* clarifying question that was outstanding before the call is still held,
\* so the reply can be given again.
C5_TransportFailureKeepsState ==
  [][\A i \in 1..Len(inflight) :
       ( /\ handleSubmitResume(i)
         /\ IsTransportFailure(inflight[i].response)
         /\ inflight[i].clarify /\ ~inflight[i].abandoned )
         => result' = inflight[i].before]_vars

\* C6: the return of a call that was abandoned (resetForm or handleLogout
\* after it was issued) sets neither result nor error.
C6_AbandonedOutcomeDiscarded ==
  [][\A i \in 1..Len(inflight) :
       (handleSubmitResume(i) /\ inflight[i].abandoned)
         => (result' = result /\ error' = error)]_vars

\* C7: after a failed catalog lookup the catalog is the built-in list, never
\* empty and never half assigned.
C7_FailedLookupFallsBack ==
  lastLoad = "failed" => cities = FallbackCities /\ materials = FallbackMaterials

\* a lookup has failed in a running session
C7_Witness == lastLoad = "failed" /\ MainPageShown /\ materials = FallbackMaterials

\* C8: between a login and the following logout the catalog is assigned at
\* most once.
C8_CatalogAssignedOncePerSession == catalogWrites <= 1

\* C9: every create-parcel call was caused by one caller-initiated submit;
\* nothing is sent again on its own.
C9_NoAutomaticRetry == posts = submits

\* a call has failed and returned, and nothing is in flight
C9_Witness ==
  /\ error = Some(ErrGeneric) /\ inflight = <<>> /\ ~isLoading
  /\ submits >= 1

\* C10: every handleSubmit call eventually returns with a result or an error
\* set and isLoading false.
C10_SubmissionTerminates ==
  isLoading ~> (~isLoading /\ (result # None \/ error # None))

\* C11: after a terminal outcome the next utterance starts afresh: result and
\* error are cleared when the new request is sent, and when it returns the
\* outcome held comes from its response alone, never together with an
\* older result or error.
C11_NewConversationAfterTerminal ==
  [][ /\ Len(inflight') > Len(inflight) => (result' = None /\ error' = None)
      /\ \A i \in 1..Len(inflight) :
           handleSubmitResume(i) =>
             LET r == inflight[i].response
             IN  /\ result' \in {None, Some(r.data)}
                 /\ error' \in {None, Some(ErrFailed), Some(CatchError(r))}
                 /\ (result' = None) # (error' = None) ]_vars

\* a request sent from the form while a created parcel was shown is in
\* flight, and nothing of the old outcome is held
C11_Witness ==
  /\ Len(inflight) = 1 /\ ~inflight[1].clarify
  /\ inflight[1].before = Some(Data(TRUE, MsgCreated, TRUE))
  /\ result = None /\ error = None

\* C13: a response whose message starts with the question mark is shown as
\* a clarifying question, never as an error.
C13_QuestionShownAsQuestion ==
  [][\A i \in 1..Len(inflight) :
       ( /\ handleSubmitResume(i)
         /\ MainPageShown
         /\ inflight[i].response.kind = "ok"
         /\ isClarifyingQuestion(inflight[i].response.data.message) )
         => (QuestionShown' /\ error' = None)]_vars

\* C18: after logout and until a login succeeds, isAuthenticated() is false,
\* getCurrentUser() is null, the stored token and user record are gone, and
\* the Authorization header is empty.
C18_LoggedOutIsClean ==
  loggedOut =>
    /\ ~authService_isAuthenticated
    /\ userData = Null
    /\ lsAuthToken = Null /\ lsUserData = Null
    /\ getAuthHeaders = ""

\* the user has logged out of a session
C18_Witness == loggedOut /\ token = Null /\ ~MainPageShown

\* C19: makeAuthenticatedRequest logs the user out and returns null on a
\* 401; on every other status it returns the response and leaves the
\* authentication state alone.
C19_LogoutOn401Only ==
  [][\A st \in FetchOutcomes \ {0} :
       makeAuthenticatedRequest(st) =>
         IF st = 401
         THEN /\ token' = Null /\ userData' = Null
              /\ lsAuthToken' = Null /\ lsUserData' = Null
              /\ returned' = "null"
         ELSE /\ returned' = "response"
              /\ UNCHANGED <<token, userData, lsAuthToken, lsUserData>>]_vars

\* a 401 has logged out a user who was signed in
C19_Witness ==
  /\ returned = "null" /\ reloadPending
  /\ token = Null /\ lsAuthToken = Null /\ isAuthenticated

\* every quick-form field holds something other than white space
AllFieldsFilled == \A f \in DOMAIN quickFormData : trim(quickFormData[f]) # <<>>

\* the request that a step has just sent
Sent == inflight'[Len(inflight')]

\* C12: every utterance sent is a non-empty string, and a blank input never
\* produces a request, on the natural-language form, the quick form and the
\* clarifying reply.
C12_NoBlankUtterance ==
  [][Len(inflight') > Len(inflight) =>
       /\ trim(Sent.message) # <<>>
       /\ Sent.clarify => trim(clarifyingInput) # <<>>
       /\ (~Sent.clarify /\ ~useQuickForm) => trim(message) # <<>>
       /\ (~Sent.clarify /\ useQuickForm) => AllFieldsFilled]_vars

\* a clarifying reply is in flight in a conversation begun on the quick form
C12_Witness ==
  /\ Len(inflight) = 1 /\ inflight[1].clarify
  /\ inflight[1].message = UtterCompany
  /\ Head(inflight[1].prev) = "Create a parcel for "

\* C20: a quick-form submission produces an utterance only when all five
\* fields are filled, and the utterance is 'Create a parcel for C from F to
\* T, Wkg M' with the five values in that order.
C20_QuickFormUtterance ==
  [][(Len(inflight') > Len(inflight) /\ ~Sent.clarify /\ useQuickForm) =>
       /\ AllFieldsFilled
       /\ Sent.message =
            <<"Create a parcel for ">> \o quickFormData["company"]
              \o <<" from ">> \o quickFormData["fromCity"]
              \o <<" to ">> \o quickFormData["toCity"]
              \o <<", ">> \o quickFormData["weight"]
              \o <<"kg ">> \o quickFormData["material"]]_vars

\* a quick-form utterance from Jaipur to Kolkata is in flight
C20_Witness ==
  /\ useQuickForm /\ Len(inflight) = 1 /\ ~inflight[1].clarify
  /\ inflight[1].message =
       <<"Create a parcel for ", "ABC", " from ", "jaipur", " to ", "kolkata",
         ", ", "5", "0", "kg ", "paint">>

\* ------------------------------------------------------------ VoiceRecorder
\* the complete transcript of the current recording: every final segment
\* received since startRecording, then the last interim segment, trimmed
CompleteTranscript == trim(finalTranscript \o interimTranscript)

\* C14: when the recognition ends, onTranscriptionComplete is called with the
\* complete transcript of that recording if it is non-empty, and is not
\* called if it is empty
C14_OnendDeliversRecording ==
  [][recognition_onend =>
       delivered' = IF CompleteTranscript # <<>> THEN Some(CompleteTranscript)
                    ELSE None]_vars

\* the text that can have been recognized since the latest startRecording
Recognized == {SP} \cup (IF epoch = 0 THEN {} ELSE {SpeechWords[epoch]})

\* C15: after a startRecording, the transcript that is displayed and the
\* transcript that is delivered hold only text recognized after that
\* startRecording
C15_FreshStart ==
  /\ TokensOf(transcript) \subseteq Recognized
  /\ delivered # None => TokensOf(delivered[1]) \subseteq Recognized

\* C16: when the silence timeout runs, start() is attempted again if a
\* recording is in progress and is not attempted otherwise
C16_RestartOnlyWhileRecording ==
  [][silenceTimeout => restartAttempted' = isRecording]_vars

\* C17: after every onresult, the transcript is all the final text of the
\* current recording followed by the current interim text, trimmed
C17_TranscriptCumulative ==
  [][(\E n \in 1..Len(SpeechWords) : \E ev \in SpeechEvents(SpeechWords[n]) :
        recognition_onresult(ev))
       => transcript' = trim(finalTranscript' \o interimTranscript')]_vars
====
